---- MODULE Spec2Model ----
(***************************************************************************)
(* Reservation lifecycle of the rent-a-car backend: the Car, Reservation   *)
(* and Statistics collections, the Create / Approve / Reject handlers of   *)
(* routes/reservationRoutes.ts, the administrative car routes and the      *)
(* hourly reconciliation job of cronJobs.ts.                               *)
(*                                                                         *)
(* Every handler is one atomic action.  A handler's parameter f names the  *)
(* store write of that handler that throws (NoFail: none does); the writes *)
(* made before the throwing one stay in the store, as the handlers use no  *)
(* transaction.  A read that throws changes nothing in the store and is    *)
(* answered by the same catch clause as a write that throws.               *)
(***************************************************************************)
EXTENDS Integers, Sequences, FiniteSets, TLC

\* ---------------------------------------------------------------- bounds
MaxCars == 1      \* cars ever created
MaxRes  == 2      \* reservations ever created
MaxDate == 1      \* startDate and endDate range over 0..MaxDate
MaxNow  == MaxDate + 1
Costs   == {100, 200}

CarIds == 1..MaxCars
ResIds == 1..MaxRes
Dates  == 0..MaxDate
\* the date intervals of the requests: startDate <= endDate
Intervals == {iv \in Dates \X Dates : iv[1] <= iv[2]}

\* ------------------------------------------------------------ vocabulary
CarStatus == {"available", "reserved", "maintenance", "rented"}
ResStatus == {"pending", "confirmed", "cancelled", "completed"}
PaymentStatus == {"pending", "confirmed", "cancelled"}

\* HTTP status codes of the responses
Created     == "201"
OK          == "200"
BadRequest  == "400"
NotFound    == "404"
ServerError == "500"
\* outcome of a run of the cron callback: it returns nothing, and logs
\* what it catches
SweepDone   == "done"
SweepLogged == "logged"

NoFail == "none"
NoId   == 0

\* one tick of the clock is half a day: a calendar date is two ticks long
TicksPerDay == 2

VARIABLES
    cars,          \* Car collection: _id -> status
    nextCarId,     \* the next fresh Car _id
    reservations,  \* Reservation collection: _id -> document
    nextId,        \* the next fresh Reservation _id
    statistics,    \* Statistics collection, in insertion order
    now,           \* the wall clock
    resp,          \* the outcome of the last operation
    rejected,      \* history: the reservations whose Reject answered 200
    approving,     \* reservation _id -> where the Approve request for it is
    raced          \* history: two Approve requests were in flight together

vars == <<cars, nextCarId, reservations, nextId, statistics, now, resp, rejected,
          approving, raced>>
store == <<cars, reservations, statistics>>
\* the Approve requests in flight; the handlers that run in one piece have none
requests == <<approving, raced>>

\* where an Approve request is: at none of its awaits (Idle), or about to
\* make the store operation named
Idle == "idle"
NoRequests == [r \in ResIds |-> Idle]

\* what a run of the cron callback went through (history): for each document
\* of the batch it reached, the reservation, the status its car had (NoCar
\* when Car.findById found none), whether the overlap query matched, and
\* whether the document's own save went through; rerun tells that the run
\* came straight after a run that went through a batch of documents to its end
NoCar == "none"
NoLog == [docs |-> <<>>, rerun |-> FALSE]

\* what the last operation answered: the operation, the reservation it was
\* about (the new one, for Create), the carId of a Create request, the HTTP
\* status and the error message of the body; log is NoLog but for the cron
\* callback
Response(op, id, car, code, error) ==
    [op |-> op, id |-> id, car |-> car, code |-> code, error |-> error,
     log |-> NoLog]

NoError == ""
\* err.message of a caught exception
StoreError == "store error"

\* ------------------------------------------------------ store primitives
\* mutant: every carId is taken to name a car
CarExistsAlways(c) == TRUE

\* Model.findById
CarExists(c) == c \in DOMAIN cars
ResExists(r) == r \in DOMAIN reservations

\* document.save() of a new or changed document
PutRes(rs, r, doc) == [x \in DOMAIN rs \cup {r} |-> IF x = r THEN doc ELSE rs[x]]
PutCar(cs, c, st) == [x \in DOMAIN cs \cup {c} |-> IF x = c THEN st ELSE cs[x]]

\* mutant: the delete removes nothing
RemoveNothing(f, k) == f

\* Model.deleteOne({_id}) / findByIdAndDelete
Remove(f, k) == [x \in DOMAIN f \ {k} |-> f[x]]

\* the positions of the Statistics documents of one reservation
StatsOf(st, r) == {i \in 1..Len(st) : st[i].reservationId = r}

Min(S) == CHOOSE x \in S : \A y \in S : x <= y

\* Statistics.findOne({reservationId}): the first match in natural order
FindStat(st, r) == IF StatsOf(st, r) = {} THEN 0 ELSE Min(StatsOf(st, r))

\* mutant: the delete leaves the document in the collection
DeleteStatKeeping(st, r) == st

\* Statistics.deleteOne({reservationId}): removes the first match
DeleteStat(st, r) ==
    IF FindStat(st, r) = 0 THEN st
    ELSE SubSeq(st, 1, FindStat(st, r) - 1) \o SubSeq(st, FindStat(st, r) + 1, Len(st))

\* mutant: the delete always reports one deleted document
DeletedCountOne(st, r) == 1

DeletedCount(st, r) == IF FindStat(st, r) = 0 THEN 0 ELSE 1

\* ---------------------------------------------------------------- Create
\* new Date(startDate).toISOString().split('T')[0]: the calendar date
ReservationDate(startDate) == (startDate \div TicksPerDay) * TicksPerDay

NewReservation(carId, startDate, endDate, totalCost) ==
    [carId |-> carId, startDate |-> startDate, endDate |-> endDate,
     status |-> "pending", totalCost |-> totalCost]

\* mutant: the revenue is not copied from the request
NewStatsNoRevenue(rid, startDate, totalCost) ==
    [date |-> ReservationDate(startDate), revenue |-> 0,
     paymentStatus |-> "pending", reservationId |-> rid]

NewStats(rid, startDate, totalCost) ==
    [date |-> ReservationDate(startDate), revenue |-> totalCost,
     paymentStatus |-> "pending", reservationId |-> rid]

CreateFail == {NoFail, "saveRes", "saveStat"}

\* mutant: Create marks the car reserved
CreateReservingCar(carId, startDate, endDate, totalCost, f) ==
    /\ UNCHANGED requests
    /\ carId \in DOMAIN cars
    /\ nextId <= MaxRes
    /\ reservations' = PutRes(reservations, nextId,
                          NewReservation(carId, startDate, endDate, totalCost))
    /\ nextId' = nextId + 1
    /\ statistics' = Append(statistics, NewStats(nextId, startDate, totalCost))
    /\ cars' = PutCar(cars, carId, "reserved")
    /\ resp' = Response("create", nextId, carId, Created, NoError)
    /\ UNCHANGED <<nextCarId, now, rejected>>

\* mutant: Create saves the statistics document before the reservation
CreateStatsFirst(carId, startDate, endDate, totalCost, f) ==
    /\ UNCHANGED requests
    /\ UNCHANGED <<cars, nextCarId, now, rejected>>
    /\ IF ~CarExists(carId)
       THEN /\ resp' = Response("create", NoId, carId, NotFound, "Car not found!")
            /\ UNCHANGED <<reservations, nextId, statistics>>
       ELSE IF f = "saveStat"
       THEN /\ resp' = Response("create", NoId, carId, BadRequest, StoreError)
            /\ UNCHANGED <<reservations, nextId, statistics>>
       ELSE /\ nextId <= MaxRes
            /\ statistics' = Append(statistics, NewStats(nextId, startDate, totalCost))
            /\ nextId' = nextId + 1
            /\ IF f = "saveRes"
               THEN /\ resp' = Response("create", nextId, carId, BadRequest, StoreError)
                    /\ UNCHANGED reservations
               ELSE /\ reservations' =
                         PutRes(reservations, nextId,
                                NewReservation(carId, startDate, endDate, totalCost))
                    /\ resp' = Response("create", nextId, carId, Created, NoError)

Create(carId, startDate, endDate, totalCost, f) ==
    /\ UNCHANGED requests
    /\ UNCHANGED <<cars, nextCarId, now, rejected>>
    /\ IF ~CarExists(carId)
       THEN /\ resp' = Response("create", NoId, carId, NotFound, "Car not found!")
            /\ UNCHANGED <<reservations, nextId, statistics>>
       ELSE IF f = "saveRes"
       THEN /\ resp' = Response("create", NoId, carId, BadRequest, StoreError)
            /\ UNCHANGED <<reservations, nextId, statistics>>
       ELSE /\ nextId <= MaxRes
            /\ reservations' = PutRes(reservations, nextId,
                                  NewReservation(carId, startDate, endDate, totalCost))
            /\ nextId' = nextId + 1
            /\ IF f = "saveStat"
               THEN /\ resp' = Response("create", nextId, carId, BadRequest, StoreError)
                    /\ UNCHANGED statistics
               ELSE /\ statistics' = Append(statistics,
                                        NewStats(nextId, startDate, totalCost))
                    /\ resp' = Response("create", nextId, carId, Created, NoError)

\* --------------------------------------------------------------- Approve
\* mutant: a completed reservation can be approved again
ApprovableResOrCompleted(doc) == doc.status \in {"pending", "completed"}
ApprovableRes(doc) == doc.status = "pending"
\* mutant: the car's status is not looked at
ApprovableCarAny(st) == TRUE
ApprovableCar(st) == st = "available"
ApprovedRes(doc) == [doc EXCEPT !.status = "confirmed"]
\* mutant: the statistics document is left as it was
ApprovedStatUnchanged(s) == s
ApprovedStat(s) == [s EXCEPT !.paymentStatus = "confirmed"]
\* mutant: Approve leaves the car available
ApprovedCarAvailable == "available"
ApprovedCar == "reserved"

ApproveFail == {NoFail, "saveRes", "saveStat", "saveCar"}

\* mutant: Approve takes the statistics document for granted, and the
\* assignment to the missing document throws after the reservation's save
ApproveNeedingStats(id, f) ==
    /\ UNCHANGED requests
    /\ UNCHANGED <<nextCarId, nextId, now, rejected>>
    /\ IF ~ResExists(id)
       THEN /\ resp' = Response("approve", id, NoId, NotFound, "Reservation not found")
            /\ UNCHANGED store
       ELSE IF ~ApprovableRes(reservations[id])
       THEN /\ resp' = Response("approve", id, NoId, BadRequest,
                             "Only pending reservations can be approved")
            /\ UNCHANGED store
       ELSE IF ~CarExists(reservations[id].carId)
       THEN /\ resp' = Response("approve", id, NoId, NotFound, "Car not found!")
            /\ UNCHANGED store
       ELSE IF ~ApprovableCar(cars[reservations[id].carId])
       THEN /\ resp' = Response("approve", id, NoId, BadRequest, "Car is not available!")
            /\ UNCHANGED store
       ELSE IF f = "saveRes"
       THEN /\ resp' = Response("approve", id, NoId, ServerError, StoreError)
            /\ UNCHANGED store
       ELSE /\ reservations' = PutRes(reservations, id, ApprovedRes(reservations[id]))
            /\ IF FindStat(statistics, id) = 0
               THEN /\ resp' = Response("approve", id, NoId, ServerError,
                                        "Cannot set properties of null")
                    /\ UNCHANGED <<statistics, cars>>
               ELSE IF f = "saveStat"
               THEN /\ resp' = Response("approve", id, NoId, ServerError, StoreError)
                    /\ UNCHANGED <<statistics, cars>>
               ELSE /\ statistics' =
                         [statistics EXCEPT ![FindStat(statistics, id)] =
                              ApprovedStat(statistics[FindStat(statistics, id)])]
                    /\ IF f = "saveCar"
                       THEN /\ resp' = Response("approve", id, NoId, ServerError, StoreError)
                            /\ UNCHANGED cars
                       ELSE /\ cars' = PutCar(cars, reservations[id].carId, ApprovedCar)
                            /\ resp' = Response("approve", id, NoId, OK, NoError)

Approve(id, f) ==
    /\ UNCHANGED requests
    /\ UNCHANGED <<nextCarId, nextId, now, rejected>>
    /\ IF ~ResExists(id)
       THEN /\ resp' = Response("approve", id, NoId, NotFound, "Reservation not found")
            /\ UNCHANGED store
       ELSE IF ~ApprovableRes(reservations[id])
       THEN /\ resp' = Response("approve", id, NoId, BadRequest,
                             "Only pending reservations can be approved")
            /\ UNCHANGED store
       ELSE IF ~CarExists(reservations[id].carId)
       THEN /\ resp' = Response("approve", id, NoId, NotFound, "Car not found!")
            /\ UNCHANGED store
       ELSE IF ~ApprovableCar(cars[reservations[id].carId])
       THEN /\ resp' = Response("approve", id, NoId, BadRequest, "Car is not available!")
            /\ UNCHANGED store
       ELSE IF f = "saveRes"
       THEN /\ resp' = Response("approve", id, NoId, ServerError, StoreError)
            /\ UNCHANGED store
       ELSE /\ reservations' = PutRes(reservations, id, ApprovedRes(reservations[id]))
            /\ IF f = "saveStat" /\ FindStat(statistics, id) # 0
               THEN /\ resp' = Response("approve", id, NoId, ServerError, StoreError)
                    /\ UNCHANGED <<statistics, cars>>
               ELSE /\ statistics' =
                         IF FindStat(statistics, id) # 0
                         THEN [statistics EXCEPT ![FindStat(statistics, id)] =
                                   ApprovedStat(statistics[FindStat(statistics, id)])]
                         ELSE statistics
                    /\ IF f = "saveCar"
                       THEN /\ resp' = Response("approve", id, NoId, ServerError, StoreError)
                            /\ UNCHANGED cars
                       ELSE /\ cars' = PutCar(cars, reservations[id].carId, ApprovedCar)
                            /\ resp' = Response("approve", id, NoId, OK, NoError)

\* ---------------------------------------------------------------- Reject
\* mutant: a reservation of any status can be rejected
RejectableResAny(doc) == TRUE
RejectableRes(doc) == doc.status = "pending"
CancelledRes(doc) == [doc EXCEPT !.status = "cancelled"]

RejectFail == {NoFail, "saveRes", "deleteRes", "deleteStat"}

\* mutant: Reject keeps the cancelled reservation in the store
RejectSoftDelete(id, f) ==
    /\ UNCHANGED requests
    /\ id \in DOMAIN reservations
    /\ reservations[id].status = "pending"
    /\ reservations' = PutRes(reservations, id, CancelledRes(reservations[id]))
    /\ statistics' = DeleteStat(statistics, id)
    /\ resp' = Response("reject", id, NoId, OK, NoError)
    /\ rejected' = rejected \cup {id}
    /\ UNCHANGED <<cars, nextCarId, nextId, now>>

\* mutant: Reject deletes the statistics document first, and answers 404
\* before it writes the reservation when there is none
RejectStatisticsFirst(id, f) ==
    /\ UNCHANGED requests
    /\ UNCHANGED <<cars, nextCarId, nextId, now>>
    /\ IF ~ResExists(id)
       THEN /\ resp' = Response("reject", id, NoId, NotFound, "Reservation not found")
            /\ UNCHANGED <<reservations, statistics, rejected>>
       ELSE IF ~RejectableRes(reservations[id])
       THEN /\ resp' = Response("reject", id, NoId, BadRequest,
                             "Only pending reservations can be rejected")
            /\ UNCHANGED <<reservations, statistics, rejected>>
       ELSE IF f # NoFail
       THEN /\ resp' = Response("reject", id, NoId, ServerError, StoreError)
            /\ UNCHANGED <<reservations, statistics, rejected>>
       ELSE IF DeletedCount(statistics, id) = 0
       THEN /\ resp' = Response("reject", id, NoId, NotFound,
                             "No statistics found for this reservation")
            /\ UNCHANGED <<reservations, statistics, rejected>>
       ELSE /\ statistics' = DeleteStat(statistics, id)
            /\ reservations' = Remove(reservations, id)
            /\ resp' = Response("reject", id, NoId, OK, NoError)
            /\ rejected' = rejected \cup {id}

Reject(id, f) ==
    /\ UNCHANGED requests
    /\ UNCHANGED <<cars, nextCarId, nextId, now>>
    /\ IF ~ResExists(id)
       THEN /\ resp' = Response("reject", id, NoId, NotFound, "Reservation not found")
            /\ UNCHANGED <<reservations, statistics, rejected>>
       ELSE IF ~RejectableRes(reservations[id])
       THEN /\ resp' = Response("reject", id, NoId, BadRequest,
                             "Only pending reservations can be rejected")
            /\ UNCHANGED <<reservations, statistics, rejected>>
       ELSE IF f = "saveRes"
       THEN /\ resp' = Response("reject", id, NoId, ServerError, StoreError)
            /\ UNCHANGED <<reservations, statistics, rejected>>
       ELSE IF f = "deleteRes"
       THEN /\ reservations' = PutRes(reservations, id, CancelledRes(reservations[id]))
            /\ resp' = Response("reject", id, NoId, ServerError, StoreError)
            /\ UNCHANGED <<statistics, rejected>>
       ELSE /\ reservations' =
                 Remove(PutRes(reservations, id, CancelledRes(reservations[id])), id)
            /\ IF f = "deleteStat"
               THEN /\ resp' = Response("reject", id, NoId, ServerError, StoreError)
                    /\ UNCHANGED <<statistics, rejected>>
               ELSE /\ statistics' = DeleteStat(statistics, id)
                    /\ IF DeletedCount(statistics, id) = 0
                       THEN /\ resp' = Response("reject", id, NoId, NotFound,
                                                "No statistics found for this reservation")
                            /\ UNCHANGED rejected
                       ELSE /\ resp' = Response("reject", id, NoId, OK, NoError)
                            /\ rejected' = rejected \cup {id}

\* ------------------------------------------------------ statistics overview
\* GET /api/statistics/overview: no date in the query
NoDate == -1

\* $match: every document when the query has no date, else the documents
\* dated within the day that starts at date
Matches(s, date) ==
    \/ date = NoDate
    \/ date <= s.date /\ s.date < date + TicksPerDay

\* $group: {_id: null, totalRevenue: {$sum: '$revenue'}}; 0 when the match
\* is empty
RECURSIVE TotalRevenue(_, _)
TotalRevenue(st, date) ==
    IF st = <<>> THEN 0
    ELSE (IF Matches(Head(st), date) THEN Head(st).revenue ELSE 0)
             + TotalRevenue(Tail(st), date)

\* ------------------------------------------------- administrative car routes
\* POST /api/cars
CarCreate(status) ==
    /\ UNCHANGED requests
    /\ nextCarId <= MaxCars
    /\ cars' = PutCar(cars, nextCarId, status)
    /\ nextCarId' = nextCarId + 1
    /\ resp' = Response("car", NoId, NoId, Created, NoError)
    /\ UNCHANGED <<reservations, nextId, statistics, now, rejected>>

\* PUT /api/cars/:id
CarUpdate(c, status) ==
    /\ UNCHANGED requests
    /\ UNCHANGED <<nextCarId, reservations, nextId, statistics, now, rejected>>
    /\ IF ~CarExists(c)
       THEN /\ resp' = Response("car", NoId, NoId, NotFound, "Car not found")
            /\ UNCHANGED cars
       ELSE /\ cars' = PutCar(cars, c, status)
            /\ resp' = Response("car", NoId, NoId, OK, NoError)

\* DELETE /api/cars/:id
CarDelete(c) ==
    /\ UNCHANGED requests
    /\ UNCHANGED <<nextCarId, reservations, nextId, statistics, now, rejected>>
    /\ IF ~CarExists(c)
       THEN /\ resp' = Response("car", NoId, NoId, NotFound, "Car not found")
            /\ UNCHANGED cars
       ELSE /\ cars' = Remove(cars, c)
            /\ resp' = Response("car", NoId, NoId, OK, NoError)

\* ------------------------------------------------------ reconciliation job
\* Reservation.find({endDate: {$lt: now}, status: 'confirmed'})
\* mutant: a reservation counts as ended one tick late
ExpiredLate(doc, t) == doc.status = "confirmed" /\ doc.endDate + 1 < t
Expired(doc, t) == doc.status = "confirmed" /\ doc.endDate < t
\* mutant: the find leaves out the reservations that ended on the last date
ExpiredIdsButLast(rs, t) ==
    {r \in DOMAIN rs : Expired(rs[r], t) /\ rs[r].endDate < MaxDate}
ExpiredIds(rs, t) == {r \in DOMAIN rs : Expired(rs[r], t)}

\* the result of a find, in natural (insertion) order
RECURSIVE InOrder(_)
InOrder(S) == IF S = {} THEN <<>> ELSE <<Min(S)>> \o InOrder(S \ {Min(S)})

\* Reservation.find({carId, startDate: {$lte: now}, endDate: {$gte: now}})
\* mutant: the query has no bound on endDate
CoversFromStart(doc, t) == doc.startDate <= t
Covers(doc, t) == doc.startDate <= t /\ doc.endDate >= t
\* mutant: the query matches confirmed reservations only
OverlappingConfirmed(rs, c, t) ==
    {x \in DOMAIN rs : rs[x].carId = c /\ Covers(rs[x], t)
                           /\ rs[x].status = "confirmed"}
OverlappingReservations(rs, c, t) ==
    {x \in DOMAIN rs : rs[x].carId = c /\ Covers(rs[x], t)}

\* mutant: the job writes the status of a booked car
FreedCarReserved == "reserved"
FreedCar == "available"
\* mutant: the document is saved with the status it had
CompletedResStillConfirmed(doc) == doc
CompletedRes(doc) == [doc EXCEPT !.status = "completed"]

\* the write that throws: the op of the at-th document of the batch
SweepOps == {"saveCar", "saveRes"}
NoSweepFail == [at |-> 0, op |-> NoFail]
SweepFail == {NoSweepFail} \cup [at : 1..MaxRes, op : SweepOps]

\* mutant: a document whose car is gone is skipped (continue) and keeps its
\* status
SweepOneSkippingMissingCar(batch, i, cs, rs, t, f) ==
    LET r   == batch[i]
        c   == rs[r].carId
        hit(op) == f = [at |-> i, op |-> op]
        free == c \in DOMAIN cs /\ OverlappingReservations(rs, c, t) = {}
        entry(ok) == [id |-> r,
                      car |-> IF c \in DOMAIN cs THEN cs[c] ELSE NoCar,
                      overlap |-> c \in DOMAIN cs
                                      /\ OverlappingReservations(rs, c, t) # {},
                      done |-> ok]
    IN  IF c \notin DOMAIN cs
        THEN [cars |-> cs, reservations |-> rs, ok |-> TRUE, entry |-> entry(FALSE)]
        ELSE IF free /\ cs[c] # FreedCar /\ hit("saveCar")
        THEN [cars |-> cs, reservations |-> rs, ok |-> FALSE, entry |-> entry(FALSE)]
        ELSE LET cs2 == IF free THEN PutCar(cs, c, FreedCar) ELSE cs
             IN  IF hit("saveRes")
                 THEN [cars |-> cs2, reservations |-> rs, ok |-> FALSE,
                       entry |-> entry(FALSE)]
                 ELSE [cars |-> cs2,
                       reservations |-> PutRes(rs, r, CompletedRes(rs[r])),
                       ok |-> TRUE, entry |-> entry(TRUE)]

\* mutant: the job frees a car only when its status is reserved
SweepOneFreeingReserved(batch, i, cs, rs, t, f) ==
    LET r   == batch[i]
        c   == rs[r].carId
        hit(op) == f = [at |-> i, op |-> op]
        free == /\ c \in DOMAIN cs /\ OverlappingReservations(rs, c, t) = {}
                /\ cs[c] = "reserved"
        entry(ok) == [id |-> r,
                      car |-> IF c \in DOMAIN cs THEN cs[c] ELSE NoCar,
                      overlap |-> c \in DOMAIN cs
                                      /\ OverlappingReservations(rs, c, t) # {},
                      done |-> ok]
    IN  IF free /\ hit("saveCar")
        THEN [cars |-> cs, reservations |-> rs, ok |-> FALSE, entry |-> entry(FALSE)]
        ELSE LET cs2 == IF free THEN PutCar(cs, c, FreedCar) ELSE cs
             IN  IF hit("saveRes")
                 THEN [cars |-> cs2, reservations |-> rs, ok |-> FALSE,
                       entry |-> entry(FALSE)]
                 ELSE [cars |-> cs2,
                       reservations |-> PutRes(rs, r, CompletedRes(rs[r])),
                       ok |-> TRUE, entry |-> entry(TRUE)]

\* The body of the for loop for the i-th document of the batch, on the
\* store <<cs, rs>>; ok is FALSE when the store operation named by f threw.
SweepOne(batch, i, cs, rs, t, f) ==
    LET r   == batch[i]
        c   == rs[r].carId
        hit(op) == f = [at |-> i, op |-> op]
        free == c \in DOMAIN cs /\ OverlappingReservations(rs, c, t) = {}
        entry(ok) == [id |-> r,
                      car |-> IF c \in DOMAIN cs THEN cs[c] ELSE NoCar,
                      overlap |-> c \in DOMAIN cs
                                      /\ OverlappingReservations(rs, c, t) # {},
                      done |-> ok]
    IN  IF free /\ cs[c] # FreedCar /\ hit("saveCar")
        THEN [cars |-> cs, reservations |-> rs, ok |-> FALSE, entry |-> entry(FALSE)]
        ELSE LET cs2 == IF free THEN PutCar(cs, c, FreedCar) ELSE cs
             IN  IF hit("saveRes")
                 THEN [cars |-> cs2, reservations |-> rs, ok |-> FALSE,
                       entry |-> entry(FALSE)]
                 ELSE [cars |-> cs2,
                       reservations |-> PutRes(rs, r, CompletedRes(rs[r])),
                       ok |-> TRUE, entry |-> entry(TRUE)]

\* The for loop from the i-th document on; a throw leaves the loop, and
\* with it the try block.
RECURSIVE Sweep(_, _, _, _, _, _)
Sweep(batch, i, cs, rs, t, f) ==
    IF i > Len(batch)
    THEN [cars |-> cs, reservations |-> rs, ok |-> TRUE, docs |-> <<>>]
    ELSE LET one  == SweepOne(batch, i, cs, rs, t, f)
             rest == Sweep(batch, i + 1, one.cars, one.reservations, t, f)
         IN  IF one.ok
             THEN [rest EXCEPT !.docs = <<one.entry>> \o rest.docs]
             ELSE [cars |-> one.cars, reservations |-> one.reservations,
                   ok |-> FALSE, docs |-> <<one.entry>>]

\* mutant: the job deletes the statistics of the reservations of its batch
ReconcileDroppingStats(f) ==
    /\ UNCHANGED requests
    /\ UNCHANGED <<nextCarId, nextId, now, rejected>>
    /\ LET out == Sweep(InOrder(ExpiredIds(reservations, now)), 1,
                             cars, reservations, now, f)
           log == [docs |-> out.docs,
                   rerun |-> resp.op = "cron" /\ resp.code = SweepDone
                                 /\ resp.log.docs # <<>>]
           kept(st) == st.reservationId \notin ExpiredIds(reservations, now)
       IN  /\ cars' = out.cars
           /\ reservations' = out.reservations
           /\ statistics' = SelectSeq(statistics, kept)
           /\ resp' = IF out.ok
                      THEN [Response("cron", NoId, NoId, SweepDone, NoError)
                                EXCEPT !.log = log]
                      ELSE [Response("cron", NoId, NoId, SweepLogged, StoreError)
                                EXCEPT !.log = log]

Reconcile(f) ==
    /\ UNCHANGED requests
    /\ UNCHANGED <<nextCarId, nextId, statistics, now, rejected>>
    /\ LET out == Sweep(InOrder(ExpiredIds(reservations, now)), 1,
                             cars, reservations, now, f)
           log == [docs |-> out.docs,
                   rerun |-> resp.op = "cron" /\ resp.code = SweepDone
                                 /\ resp.log.docs # <<>>]
       IN  /\ cars' = out.cars
           /\ reservations' = out.reservations
           /\ resp' = IF out.ok
                      THEN [Response("cron", NoId, NoId, SweepDone, NoError)
                                EXCEPT !.log = log]
                      ELSE [Response("cron", NoId, NoId, SweepLogged, StoreError)
                                EXCEPT !.log = log]

\* ------------------------------------------------------------------ time
Tick ==
    /\ UNCHANGED requests
    /\ now < MaxNow
    /\ now' = now + 1
    /\ resp' = Response("tick", NoId, NoId, OK, NoError)
    /\ UNCHANGED <<cars, nextCarId, reservations, nextId, statistics, rejected>>

Init ==
    /\ cars = <<>>
    /\ nextCarId = 1
    /\ reservations = <<>>
    /\ nextId = 1
    /\ statistics = <<>>
    /\ now = 0
    /\ resp = Response("init", NoId, NoId, OK, NoError)
    /\ rejected = {}
    /\ approving = NoRequests
    /\ raced = FALSE

Next ==
    \/ \E c \in CarIds, iv \in Intervals, t \in Costs, f \in CreateFail :
           Create(c, iv[1], iv[2], t, f)
    \/ \E r \in ResIds, f \in ApproveFail : Approve(r, f)
    \/ \E r \in ResIds, f \in RejectFail : Reject(r, f)
    \/ \E st \in CarStatus : CarCreate(st)
    \/ \E c \in CarIds, st \in CarStatus : CarUpdate(c, st)
    \/ \E c \in CarIds : CarDelete(c)
    \/ \E f \in SweepFail : Reconcile(f)
    \/ Tick

Spec == Init /\ [][Next]_vars

\* The reservation lifecycle alone, on a fleet of available cars: Create,
\* Approve, Reject, the reconciliation job and the clock, with no
\* administrative car edit and no store operation that throws.
LifecycleInit ==
    /\ cars = [c \in CarIds |-> "available"]
    /\ nextCarId = MaxCars + 1
    /\ reservations = <<>>
    /\ nextId = 1
    /\ statistics = <<>>
    /\ now = 0
    /\ resp = Response("init", NoId, NoId, OK, NoError)
    /\ rejected = {}
    /\ approving = NoRequests
    /\ raced = FALSE

LifecycleNext ==
    \/ \E c \in CarIds, iv \in Intervals, t \in Costs :
           Create(c, iv[1], iv[2], t, NoFail)
    \/ \E r \in ResIds : Approve(r, NoFail)
    \/ \E r \in ResIds : Reject(r, NoFail)
    \/ Reconcile(NoSweepFail)
    \/ Tick

LifecycleSpec == LifecycleInit /\ [][LifecycleNext]_vars

\* The reservation lifecycle with its scheduling, on a fleet of available
\* cars: any store write of a handler or of the job may throw, the clock
\* advances, and the hourly job keeps being run.
FairNext ==
    \/ \E c \in CarIds, iv \in Intervals, t \in Costs, f \in CreateFail :
           Create(c, iv[1], iv[2], t, f)
    \/ \E r \in ResIds, f \in ApproveFail : Approve(r, f)
    \/ \E r \in ResIds, f \in RejectFail : Reject(r, f)
    \/ \E f \in SweepFail : Reconcile(f)
    \/ Tick

\* the find of the job would return some document
Due == ExpiredIds(reservations, now) # {}
\* a run of the job that has something to do and in which no write throws
DuePass == Due /\ Reconcile(NoSweepFail)
\* WF_vars(DuePass), with ENABLED <<DuePass>>_vars written as the state
\* predicate it is equal to: a pass that finds a document completes it, so it
\* changes the store exactly when Due holds
JobFairness == []<>~Due \/ []<><<DuePass>>_vars

FairSpec ==
    /\ LifecycleInit /\ [][FairNext]_vars
    /\ WF_vars(Tick)
    /\ JobFairness

\* ------------------------------------------- Approve, one await at a time
\* The Approve handler as the event loop runs it: each await is a store
\* operation of its own, and other requests, the job and the clock run
\* between two of them.  approving[id] names the store operation the request
\* for reservation id makes next.
Others(id) == {x \in ResIds \ {id} : approving[x] # Idle}

\* await Reservation.findById(id), and the checks on what it returned
ApproveFindReservation(id) ==
    /\ approving[id] = Idle
    /\ UNCHANGED <<cars, nextCarId, reservations, nextId, statistics, now, rejected>>
    /\ IF ~ResExists(id)
       THEN /\ resp' = Response("approve", id, NoId, NotFound, "Reservation not found")
            /\ UNCHANGED requests
       ELSE IF ~ApprovableRes(reservations[id])
       THEN /\ resp' = Response("approve", id, NoId, BadRequest,
                             "Only pending reservations can be approved")
            /\ UNCHANGED requests
       ELSE /\ approving' = [approving EXCEPT ![id] = "findCar"]
            /\ raced' = (raced \/ Others(id) # {})
            /\ UNCHANGED resp

\* await Car.findById(reservation.carId), and the checks on what it returned
ApproveFindCar(id) ==
    /\ approving[id] = "findCar"
    /\ UNCHANGED <<cars, nextCarId, reservations, nextId, statistics, now, rejected,
                   raced>>
    /\ IF ~CarExists(reservations[id].carId)
       THEN /\ resp' = Response("approve", id, NoId, NotFound, "Car not found!")
            /\ approving' = [approving EXCEPT ![id] = Idle]
       ELSE IF ~ApprovableCar(cars[reservations[id].carId])
       THEN /\ resp' = Response("approve", id, NoId, BadRequest, "Car is not available!")
            /\ approving' = [approving EXCEPT ![id] = Idle]
       ELSE /\ approving' = [approving EXCEPT ![id] = "saveRes"]
            /\ UNCHANGED resp

\* reservation.status = 'confirmed'; await reservation.save()
ApproveSaveReservation(id) ==
    /\ approving[id] = "saveRes"
    /\ reservations' = PutRes(reservations, id, ApprovedRes(reservations[id]))
    /\ approving' = [approving EXCEPT ![id] = "findStat"]
    /\ UNCHANGED <<cars, nextCarId, nextId, statistics, now, resp, rejected, raced>>

\* await Statistics.findOne({reservationId}), and if (statistics)
ApproveFindStatistics(id) ==
    /\ approving[id] = "findStat"
    /\ approving' = [approving EXCEPT ![id] =
                         IF FindStat(statistics, id) # 0 THEN "saveStat" ELSE "saveCar"]
    /\ UNCHANGED <<cars, nextCarId, reservations, nextId, statistics, now, resp,
                   rejected, raced>>

\* statistics.paymentStatus = 'confirmed'; await statistics.save()
ApproveSaveStatistics(id) ==
    /\ approving[id] = "saveStat"
    /\ statistics' = [statistics EXCEPT ![FindStat(statistics, id)] =
                          ApprovedStat(statistics[FindStat(statistics, id)])]
    /\ approving' = [approving EXCEPT ![id] = "saveCar"]
    /\ UNCHANGED <<cars, nextCarId, reservations, nextId, now, resp, rejected, raced>>

\* car.status = 'reserved'; await car.save(); res.status(200)
ApproveSaveCar(id) ==
    /\ approving[id] = "saveCar"
    /\ cars' = PutCar(cars, reservations[id].carId, ApprovedCar)
    /\ resp' = Response("approve", id, NoId, OK, NoError)
    /\ approving' = [approving EXCEPT ![id] = Idle]
    /\ UNCHANGED <<nextCarId, reservations, nextId, statistics, now, rejected, raced>>

\* Approve requests beside each other, beside Create, the job and the clock,
\* on a fleet of available cars; no store operation throws.  (No document
\* that a request in flight holds is deleted: Reject and the administrative
\* car routes are left out.)
InterleavedNext ==
    \/ \E c \in CarIds, iv \in Intervals, t \in Costs :
           Create(c, iv[1], iv[2], t, NoFail)
    \/ \E r \in ResIds : ApproveFindReservation(r)
    \/ \E r \in ResIds : ApproveFindCar(r)
    \/ \E r \in ResIds : ApproveSaveReservation(r)
    \/ \E r \in ResIds : ApproveFindStatistics(r)
    \/ \E r \in ResIds : ApproveSaveStatistics(r)
    \/ \E r \in ResIds : ApproveSaveCar(r)
    \/ Reconcile(NoSweepFail)
    \/ Tick

InterleavedSpec == LifecycleInit /\ [][InterleavedNext]_vars

\* =================================================================== claims
\* the carId of reservation r
CarOf(r) == reservations[r].carId

\* C1: Approve succeeds only when the reservation is pending and its car is
\* available; for every other combination of reservation status and car
\* status it fails with InvalidState (400) and leaves the reservation, the
\* car and the statistics unchanged.
C1_ApproveOnlyPendingAvailable ==
    [][resp'.op = "approve" =>
        LET id == resp'.id
            both == id \in DOMAIN reservations /\ CarOf(id) \in DOMAIN cars
            fits == reservations[id].status = "pending"
                        /\ cars[CarOf(id)] = "available"
        IN  /\ resp'.code = OK => both /\ fits
            /\ both /\ ~fits => resp'.code = BadRequest /\ UNCHANGED store]_vars

\* an Approve of a pending reservation was refused as its car is not available
C1_Witness ==
    /\ resp.op = "approve" /\ resp.code = BadRequest
    /\ resp.id \in DOMAIN reservations
    /\ reservations[resp.id].status = "pending"
    /\ CarOf(resp.id) \in DOMAIN cars
    /\ cars[CarOf(resp.id)] # "available"

\* C2: after a successful Approve of reservation R on car C with linked
\* statistics record S, R is confirmed, S.paymentStatus is confirmed and C
\* is reserved.
C2_ApproveEffect ==
    resp.op = "approve" /\ resp.code = OK =>
        /\ resp.id \in DOMAIN reservations
        /\ reservations[resp.id].status = "confirmed"
        /\ CarOf(resp.id) \in DOMAIN cars
        /\ cars[CarOf(resp.id)] = "reserved"
        /\ \A i \in StatsOf(statistics, resp.id) :
               statistics[i].paymentStatus = "confirmed"

\* a successful Approve of a reservation that has a statistics record
C2_Witness ==
    /\ resp.op = "approve" /\ resp.code = OK
    /\ StatsOf(statistics, resp.id) # {}

\* C3: a successful Create leaves a pending reservation and exactly one
\* Statistics record linked to it, with revenue = totalCost and
\* paymentStatus = pending.
C3_CreateOneStatistics ==
    resp.op = "create" /\ resp.code = Created =>
        /\ resp.id \in DOMAIN reservations
        /\ reservations[resp.id].status = "pending"
        /\ Cardinality(StatsOf(statistics, resp.id)) = 1
        /\ \A i \in StatsOf(statistics, resp.id) :
               /\ statistics[i].revenue = reservations[resp.id].totalCost
               /\ statistics[i].paymentStatus = "pending"

\* a successful Create of the second reservation
C3_Witness ==
    /\ resp.op = "create" /\ resp.code = Created
    /\ resp.id = 2
    /\ Len(statistics) = 2

\* C4: Create with a carId that names no car fails with NotFound and
\* creates neither a Reservation nor a Statistics record.
C4_CreateUnknownCar ==
    [][resp'.op = "create" /\ resp'.car \notin DOMAIN cars =>
        /\ resp'.code = NotFound
        /\ UNCHANGED <<reservations, statistics>>]_vars

\* a Create that named a car which is not in the store
C4_Witness ==
    /\ resp.op = "create" /\ resp.code = NotFound
    /\ resp.car \notin DOMAIN cars

\* C5: neither Create nor Reject changes the status of any car, whether the
\* operation succeeds or fails.
C5_CreateRejectKeepCars ==
    [][resp'.op \in {"create", "reject"} => cars' = cars]_vars

\* a successful Create on a car that is still available
C5_Witness ==
    /\ resp.op = "create" /\ resp.code = Created
    /\ resp.car \in DOMAIN cars
    /\ cars[resp.car] = "available"

\* C6: a successful Reject removes the reservation and its linked Statistics
\* record from the store, and a second Reject of the same reservation fails
\* with NotFound.
C6_RejectRemovesBoth ==
    [][resp'.op = "reject" =>
        /\ resp'.code = OK =>
               /\ resp'.id \in DOMAIN reservations
               /\ StatsOf(statistics, resp'.id) # {}
               /\ resp'.id \notin DOMAIN reservations'
               /\ StatsOf(statistics', resp'.id) = {}
        /\ resp'.id \in rejected => resp'.code = NotFound]_vars

\* a second Reject of a reservation that was rejected
C6_Witness ==
    /\ resp.op = "reject" /\ resp.code = NotFound
    /\ resp.id \in rejected

\* C7: once a reservation has been rejected, every later Approve of it fails
\* with NotFound and changes no car, reservation or statistics record.
C7_ApproveAfterReject ==
    [][resp'.op = "approve" /\ resp'.id \in rejected =>
        resp'.code = NotFound /\ UNCHANGED store]_vars

\* an Approve of a rejected reservation, after another reservation was made
C7_Witness ==
    /\ resp.op = "approve" /\ resp.code = NotFound
    /\ resp.id \in rejected
    /\ reservations # <<>>

\* C8 as stated: Reject of a reservation that is in the store but is not
\* pending fails with NotFound and leaves the reservation and its statistics
\* unchanged.
C8_Original ==
    [][resp'.op = "reject" /\ resp'.id \in DOMAIN reservations
            /\ reservations[resp'.id].status # "pending" =>
        resp'.code = NotFound /\ UNCHANGED <<reservations, statistics>>]_vars

\* C8 amended: Reject of a reservation that is in the store but is not
\* pending fails with InvalidState (400, "Only pending reservations can be
\* rejected") and leaves the reservation and its statistics unchanged.
C8_RejectNotPending ==
    [][resp'.op = "reject" /\ resp'.id \in DOMAIN reservations
            /\ reservations[resp'.id].status # "pending" =>
        resp'.code = BadRequest /\ UNCHANGED <<reservations, statistics>>]_vars

\* a Reject of a confirmed or completed reservation was refused
C8_Witness ==
    /\ resp.op = "reject" /\ resp.code = BadRequest
    /\ resp.id \in DOMAIN reservations
    /\ reservations[resp.id].status \in {"confirmed", "completed"}

\* C9: Reject of a pending reservation that has no Statistics record does
\* not report success: it fails with NotFound (with the store's error when a
\* write of the Reject throws).
C9_RejectWithoutStatistics ==
    [][resp'.op = "reject" /\ resp'.id \in DOMAIN reservations
            /\ reservations[resp'.id].status = "pending"
            /\ StatsOf(statistics, resp'.id) = {} =>
        \/ resp'.code = NotFound
        \/ resp'.code = ServerError /\ resp'.error = StoreError]_vars

\* a Reject answered that the reservation has no statistics
C9_Witness ==
    /\ resp.op = "reject" /\ resp.code = NotFound
    /\ resp.error = "No statistics found for this reservation"

\* C10: after a reconciliation pass run at time now (one that no store error
\* cut short), every reservation that was confirmed with endDate < now when
\* the pass started is completed.
C10_SweepCompletesExpired ==
    [][resp'.op = "cron" /\ resp'.code = SweepDone =>
        \A r \in DOMAIN reservations :
            reservations[r].status = "confirmed" /\ reservations[r].endDate < now =>
                r \in DOMAIN reservations' /\ reservations'[r].status = "completed"]_vars

\* a pass has completed the two reservations of the store
C10_Witness ==
    /\ resp.op = "cron" /\ resp.code = SweepDone
    /\ DOMAIN reservations = {1, 2}
    /\ \A r \in DOMAIN reservations : reservations[r].status = "completed"

\* reservation r is one the pass that starts now will find: confirmed, with
\* endDate earlier than now
WasExpired(r) ==
    /\ r \in DOMAIN reservations
    /\ reservations[r].status = "confirmed"
    /\ reservations[r].endDate < now

\* some reservation on car c, of any status, has startDate <= now <= endDate
Covered(c) ==
    \E x \in DOMAIN reservations :
        /\ reservations[x].carId = c
        /\ reservations[x].startDate <= now
        /\ now <= reservations[x].endDate

\* the documents the last run of the cron callback went through
Docs == resp.log.docs

\* C11: after a reconciliation pass (one that no store error cut short),
\* every car that was reserved or rented with an expired confirmed
\* reservation on it, and that no reservation's interval covers now, is
\* available.
C11_SweepFreesCars ==
    [][resp'.op = "cron" /\ resp'.code = SweepDone =>
        \A c \in DOMAIN cars :
            /\ cars[c] \in {"reserved", "rented"}
            /\ \E r \in DOMAIN reservations : WasExpired(r) /\ CarOf(r) = c
            /\ ~Covered(c)
            => c \in DOMAIN cars' /\ cars'[c] = "available"]_vars

\* a pass found a reserved or rented car with no overlap and freed it
C11_Witness ==
    /\ resp.op = "cron" /\ resp.code = SweepDone
    /\ \E i \in 1..Len(Docs) :
           /\ Docs[i].car \in {"reserved", "rented"}
           /\ ~Docs[i].overlap
           /\ cars[CarOf(Docs[i].id)] = "available"

\* C12: a pass leaves a car's status as it is when some reservation on that
\* car, of whatever status, has startDate <= now <= endDate; the only change
\* a pass makes to a car is to set it available, for an expired confirmed
\* reservation on it and when no such reservation exists.
C12_SweepOverlapAnyStatus ==
    [][resp'.op = "cron" =>
        /\ DOMAIN cars' = DOMAIN cars
        /\ \A c \in DOMAIN cars :
               /\ Covered(c) => cars'[c] = cars[c]
               /\ cars'[c] # cars[c] =>
                      /\ cars'[c] = "available"
                      /\ ~Covered(c)
                      /\ \E r \in DOMAIN reservations :
                             WasExpired(r) /\ CarOf(r) = c]_vars

\* a pass left a reserved car reserved, as a pending reservation covers now
C12_Witness ==
    /\ resp.op = "cron"
    /\ \E i \in 1..Len(Docs) :
           /\ Docs[i].car = "reserved" /\ Docs[i].overlap
           /\ cars[CarOf(Docs[i].id)] = "reserved"
           /\ \E x \in DOMAIN reservations :
                  /\ reservations[x].carId = CarOf(Docs[i].id)
                  /\ reservations[x].status = "pending"
                  /\ reservations[x].startDate <= now
                  /\ now <= reservations[x].endDate

\* C13: a pass (one that no store error cut short) sets every expired
\* confirmed reservation to completed, whether or not its car was freed; when
\* the reservation's car is no longer in the store, the pass writes no car
\* for it.
C13_SweepMissingCar ==
    [][resp'.op = "cron" /\ resp'.code = SweepDone =>
        \A r \in DOMAIN reservations : WasExpired(r) =>
            /\ reservations'[r].status = "completed"
            /\ CarOf(r) \notin DOMAIN cars => CarOf(r) \notin DOMAIN cars']_vars

\* a pass completed a reservation whose car was not found
C13_Witness ==
    /\ resp.op = "cron" /\ resp.code = SweepDone
    /\ \E i \in 1..Len(Docs) :
           /\ Docs[i].car = NoCar /\ Docs[i].done
           /\ reservations[Docs[i].id].status = "completed"
           /\ CarOf(Docs[i].id) \notin DOMAIN cars

\* C14: a pass that runs straight after a pass that reached the end of its
\* batch (same now, no other operation in between) finds an empty batch
\* and writes no car, reservation or statistics record.
C14_SweepIdempotent ==
    [][resp.op = "cron" /\ resp.code = SweepDone /\ resp'.op = "cron" =>
        /\ UNCHANGED store
        /\ resp'.log.docs = <<>>]_vars

\* a second pass ran straight after a pass that had completed reservations
C14_Witness ==
    /\ resp.op = "cron" /\ resp.code = SweepDone
    /\ resp.log.rerun
    /\ Docs = <<>>

\* C15: when a store operation throws while a pass is at one reservation of
\* its batch, the pass still sets every remaining expired confirmed
\* reservation of the batch to completed.
C15_SweepSurvivesFailure ==
    [][resp'.op = "cron" /\ resp'.error = StoreError =>
        \A r \in DOMAIN reservations :
            /\ WasExpired(r)
            /\ r \notin {resp'.log.docs[i].id : i \in 1..Len(resp'.log.docs)}
            => reservations'[r].status = "completed"]_vars

\* C16: a car whose status is reserved or rented has a non-cancelled
\* reservation whose interval covers now or lies in the future.
C16_ReservedCarHasReservation ==
    \A c \in DOMAIN cars :
        cars[c] \in {"reserved", "rented"} =>
            \E r \in DOMAIN reservations :
                /\ reservations[r].carId = c
                /\ reservations[r].status # "cancelled"
                /\ reservations[r].endDate >= now

\* C17: every reservation with status pending or confirmed has exactly one
\* Statistics record whose reservationId is its identity.
C17_OneStatisticsPerLiveReservation ==
    \A r \in DOMAIN reservations :
        reservations[r].status \in {"pending", "confirmed"} =>
            Cardinality(StatsOf(statistics, r)) = 1

\* a car goes from available to reserved in the step
Reserves(c) ==
    /\ c \in DOMAIN cars /\ cars[c] = "available"
    /\ c \in DOMAIN cars' /\ cars'[c] = "reserved"

\* the step is a successful Approve of a pending reservation on car c
ApprovesOn(c) ==
    /\ resp'.op = "approve" /\ resp'.code = OK
    /\ resp'.id \in DOMAIN reservations
    /\ reservations[resp'.id].status = "pending"
    /\ CarOf(resp'.id) = c

\* C18 as stated: every step in which a car goes from available to reserved
\* is a successful Approve of a pending reservation on that car.
C18_Original ==
    [][\A c \in CarIds : Reserves(c) => ApprovesOn(c)]_vars

\* C18 amended: every step in which a car goes from available to reserved is
\* a successful Approve of a pending reservation on that car or an
\* administrative car update (PUT /api/cars/:id).
C18_ApproveOrCarUpdate ==
    [][\A c \in CarIds : Reserves(c) =>
        \/ ApprovesOn(c)
        \/ resp'.op = "car" /\ resp'.code = OK]_vars

\* an Approve has just reserved the car of its reservation
C18_Witness ==
    /\ resp.op = "approve" /\ resp.code = OK
    /\ cars[CarOf(resp.id)] = "reserved"
    /\ reservations[resp.id].status = "confirmed"

\* C19: a pass never creates, updates or deletes a Statistics record: the
\* record of a reservation that goes from confirmed to completed keeps its
\* paymentStatus (confirmed), revenue and date.
C19_SweepKeepsStatistics ==
    [][resp'.op = "cron" =>
        /\ Len(statistics') = Len(statistics)
        /\ \A i \in 1..Len(statistics) : statistics'[i] = statistics[i]
        /\ \A r \in DOMAIN reservations :
               WasExpired(r) /\ reservations'[r].status = "completed" =>
                   \A i \in StatsOf(statistics, r) :
                       /\ i \in StatsOf(statistics', r)
                       /\ statistics'[i].paymentStatus = statistics[i].paymentStatus
                       /\ statistics'[i].revenue = statistics[i].revenue
                       /\ statistics'[i].date = statistics[i].date]_vars

\* a pass completed a reservation whose statistics record is still confirmed
C19_Witness ==
    /\ resp.op = "cron"
    /\ \E i \in 1..Len(Docs) :
           /\ Docs[i].done
           /\ reservations[Docs[i].id].status = "completed"
           /\ \E k \in StatsOf(statistics, Docs[i].id) :
                  /\ statistics[k].paymentStatus = "confirmed"
                  /\ statistics[k].revenue = reservations[Docs[i].id].totalCost

\* C20: Approve of a pending reservation on an available car succeeds when
\* no Statistics record is linked to the reservation (and no store write
\* throws): the reservation becomes confirmed, the car reserved, and no
\* Statistics record is created.
C20_ApproveWithoutStatistics ==
    [][/\ resp'.op = "approve"
       /\ resp'.id \in DOMAIN reservations
       /\ reservations[resp'.id].status = "pending"
       /\ CarOf(resp'.id) \in DOMAIN cars
       /\ cars[CarOf(resp'.id)] = "available"
       /\ StatsOf(statistics, resp'.id) = {}
       /\ resp'.error # StoreError
       => /\ resp'.code = OK
          /\ reservations'[resp'.id].status = "confirmed"
          /\ cars'[CarOf(resp'.id)] = "reserved"
          /\ statistics' = statistics]_vars

\* an Approve succeeded on a reservation that has no statistics record
C20_Witness ==
    /\ resp.op = "approve" /\ resp.code = OK
    /\ StatsOf(statistics, resp.id) = {}
    /\ reservations[resp.id].status = "confirmed"
    /\ cars[CarOf(resp.id)] = "reserved"

\* the Statistics documents whose reservationId names no reservation of rs
OrphanStats(st, rs) == {i \in 1..Len(st) : st[i].reservationId \notin DOMAIN rs}

\* C21: a Create whose save of the Reservation or of the Statistics document
\* throws answers 400 with the store's error, writes no Statistics document,
\* and leaves no Statistics document without its reservation that was not
\* without it before.
C21_CreateFailureNoOrphan ==
    [][resp'.op = "create" /\ resp'.error = StoreError =>
        /\ resp'.code = BadRequest
        /\ statistics' = statistics
        /\ StatsOf(statistics', resp'.id) = {}
        /\ OrphanStats(statistics', reservations')
               \subseteq OrphanStats(statistics, reservations)]_vars

\* a Create saved its reservation and failed at the statistics: the store
\* has no statistics document that lacks its reservation
C21_Witness ==
    /\ resp.op = "create" /\ resp.code = BadRequest /\ resp.error = StoreError
    /\ resp.id \in DOMAIN reservations
    /\ statistics # <<>>
    /\ OrphanStats(statistics, reservations) = {}

\* C22: in every step, a reservation that stays in the store and changes
\* status goes from pending to confirmed in an Approve of it, from pending to
\* cancelled in a Reject of it, or from confirmed to completed in a
\* reconciliation pass; a reservation leaves the store only in a Reject of
\* it, from pending, and a cancelled one stays only when the Reject's delete
\* threw; a completed or cancelled reservation stays as it is.
C22_StatusTransitions ==
    [][\A r \in DOMAIN reservations :
        LET old == reservations[r].status
            kept == r \in DOMAIN reservations'
        IN  /\ kept /\ reservations'[r].status # old =>
                \/ /\ old = "pending" /\ reservations'[r].status = "confirmed"
                   /\ resp'.op = "approve" /\ resp'.id = r
                \/ /\ old = "pending" /\ reservations'[r].status = "cancelled"
                   /\ resp'.op = "reject" /\ resp'.id = r
                   /\ resp'.error = StoreError
                \/ /\ old = "confirmed" /\ reservations'[r].status = "completed"
                   /\ resp'.op = "cron"
            /\ ~kept => old = "pending" /\ resp'.op = "reject" /\ resp'.id = r
            /\ old \in {"completed", "cancelled"} =>
                   kept /\ reservations'[r] = reservations[r]]_vars

\* an Approve or a Reject of a completed reservation was refused, with a
\* cancelled reservation left in the store by a Reject whose delete threw
C22_Witness ==
    /\ resp.op \in {"approve", "reject"} /\ resp.code = BadRequest
    /\ resp.id \in DOMAIN reservations
    /\ reservations[resp.id].status = "completed"
    /\ \E r \in DOMAIN reservations : reservations[r].status = "cancelled"

\* reservation r becomes completed in the step
Completes(r) ==
    /\ r \in DOMAIN reservations'
    /\ reservations'[r].status = "completed"
    /\ r \in DOMAIN reservations => reservations[r].status # "completed"

\* C23: with the clock advancing and the job being run, every confirmed
\* reservation is eventually completed (its endDate passes, and a pass
\* finds it); and every step in which a reservation becomes completed is a
\* reconciliation pass that found it confirmed with endDate < now.
C23_EventuallyCompleted ==
    /\ \A r \in ResIds :
           (r \in DOMAIN reservations /\ reservations[r].status = "confirmed")
               ~> (r \in DOMAIN reservations /\ reservations[r].status = "completed")
    /\ [][\A r \in ResIds : Completes(r) => resp'.op = "cron" /\ WasExpired(r)]_vars

\* a pass has completed a reservation that was confirmed before its endDate
\* had passed
C23_Witness ==
    /\ resp.op = "cron"
    /\ \E i \in 1..Len(Docs) :
           /\ Docs[i].done
           /\ reservations[Docs[i].id].status = "completed"
           /\ reservations[Docs[i].id].endDate = MaxDate
           /\ now = MaxNow

\* the confirmed reservations on car c
ConfirmedOn(c) ==
    {r \in DOMAIN reservations :
        reservations[r].carId = c /\ reservations[r].status = "confirmed"}

NoStatistics == "No statistics found for this reservation"

\* C25: a Reject of a pending reservation that has no Statistics document,
\* none of whose store writes throws, answers 404 for the missing statistics
\* after it has deleted the reservation: the reservation is gone from the
\* store, the store's other documents are as they were; and Reject gives that
\* answer in no other case.
C25_RejectNotFoundDeletes ==
    [][resp'.op = "reject" =>
        LET id == resp'.id
            bare == /\ id \in DOMAIN reservations
                    /\ reservations[id].status = "pending"
                    /\ StatsOf(statistics, id) = {}
        IN  /\ bare /\ resp'.error # StoreError =>
                   resp'.code = NotFound /\ resp'.error = NoStatistics
            /\ resp'.error = NoStatistics =>
                   /\ bare
                   /\ resp'.code = NotFound
                   /\ id \notin DOMAIN reservations'
                   /\ reservations' = Remove(reservations, id)
                   /\ reservations' # reservations
                   /\ statistics' = statistics
                   /\ cars' = cars]_vars

\* a Reject answered 404 for the missing statistics, and the reservation it
\* was about, which had been created, is no longer in the store
C25_Witness ==
    /\ resp.op = "reject" /\ resp.code = NotFound /\ resp.error = NoStatistics
    /\ resp.id \in 1..(nextId - 1)
    /\ resp.id \notin DOMAIN reservations
    /\ resp.id \notin rejected

\* the sum of totalCost over the reservations of rs
RECURSIVE TotalCost(_)
TotalCost(rs) ==
    IF DOMAIN rs = {} THEN 0
    ELSE rs[Min(DOMAIN rs)].totalCost + TotalCost(Remove(rs, Min(DOMAIN rs)))

\* C26: when Create, Approve, Reject and the reconciliation pass run one at
\* a time and no store write throws, the total revenue of the overview
\* without date equals the sum of totalCost over the reservations in the
\* store, of whatever status.
C26_RevenueMatchesCost ==
    TotalRevenue(statistics, NoDate) = TotalCost(reservations)

\* one reservation was rejected and the other completed by a pass; the
\* overview counts the cost of the completed one
C26_Witness ==
    /\ rejected # {}
    /\ \E r \in DOMAIN reservations : reservations[r].status = "completed"
    /\ TotalRevenue(statistics, NoDate) > 0
    /\ TotalRevenue(statistics, NoDate) = TotalCost(reservations)

\* C27: a reconciliation pass (one that no store error cut short) sets
\* available every car that has an expired confirmed reservation and no
\* reservation covering now, whatever the car's status was: maintenance and
\* rented as well as reserved.
C27_SweepFreesAnyStatus ==
    [][resp'.op = "cron" /\ resp'.code = SweepDone =>
        \A c \in DOMAIN cars :
            /\ \E r \in DOMAIN reservations : WasExpired(r) /\ CarOf(r) = c
            /\ ~Covered(c)
            => c \in DOMAIN cars' /\ cars'[c] = "available"]_vars

\* a pass found a car in maintenance with no overlap, and the car is now
\* available
C27_Witness ==
    /\ resp.op = "cron" /\ resp.code = SweepDone
    /\ \E i \in 1..Len(Docs) :
           /\ Docs[i].car = "maintenance"
           /\ ~Docs[i].overlap
           /\ Docs[i].done
           /\ cars[CarOf(Docs[i].id)] = "available"

====
